---- MODULE Spec2Model ----
(***************************************************************************)
(* Model of the git-backup extension (src/extension.js, TypeScript part):  *)
(* ignore-rule parsing and matching, directory listing, the interactive    *)
(* navigator with its selection array, and the collision-safe copy phase.  *)
(*                                                                         *)
(* File and directory names are strings; a path is the sequence of its     *)
(* components (<<"w", "src", "a.txt">> is /w/src/a.txt).                   *)
(***************************************************************************)
EXTENDS Integers, Sequences, FiniteSets, TLC

(***************************************************************************)
(* String helpers (JavaScript String / node path on a single name)         *)
(***************************************************************************)

\* s[n] as a one-character string (n is 1-based)
Ch(s, n) == SubSeq(s, n, n)

\* String.prototype.startsWith
StartsWith(s, p) == Len(s) >= Len(p) /\ SubSeq(s, 1, Len(p)) = p

\* String.prototype.endsWith
EndsWith(s, p) == Len(s) >= Len(p) /\ SubSeq(s, Len(s) - Len(p) + 1, Len(s)) = p

\* String.prototype.includes for a one-character needle
Includes(s, c) == \E n \in 1..Len(s) : Ch(s, n) = c

\* index of the last occurrence of c in s, 0 when there is none
LastIndexOf(s, c) ==
    IF Includes(s, c) THEN CHOOSE n \in 1..Len(s) :
                              /\ Ch(s, n) = c
                              /\ \A j \in (n+1)..Len(s) : Ch(s, j) # c
    ELSE 0

\* path.extname on a base name: from the last '.' to the end; "" when there
\* is no '.', when the only '.' is the first character, or for ".."
ExtName(name) ==
    LET k == LastIndexOf(name, ".")
    IN IF k = 0 \/ k = 1 \/ name = ".." THEN ""
       ELSE SubSeq(name, k, Len(name))

\* path.basename(name, ext) on a base name: strips ext when name ends with
\* it and is not equal to it
BaseNameNoExt(name, ext) ==
    IF ext # "" /\ name # ext /\ EndsWith(name, ext)
    THEN SubSeq(name, 1, Len(name) - Len(ext))
    ELSE name

\* decimal rendering of the counter inside the template literal
NumStr(n) == ToString(n)

(***************************************************************************)
(* Paths (node path on absolute, normalised paths)                         *)
(***************************************************************************)

\* path.join(dir, name)
Join(dir, name) == Append(dir, name)

\* path.join(dir, relativePath) for a relative path of several components
JoinRel(dir, rel) == dir \o rel

\* path.dirname; the empty sequence is the file-system root "/"
DirName(p) == IF Len(p) = 0 THEN p ELSE SubSeq(p, 1, Len(p) - 1)

\* path.basename
BaseName(p) == p[Len(p)]

\* p is base or lies beneath it
IsUnder(p, base) == Len(p) >= Len(base) /\ SubSeq(p, 1, Len(base)) = base

\* path.relative(from, to) as a component sequence; a step out of `from`
\* is the component ".."
RECURSIVE Relative(_, _)
Relative(from, to) ==
    IF IsUnder(to, from) THEN SubSeq(to, Len(from) + 1, Len(to))
    ELSE <<"..">> \o Relative(DirName(from), to)

\* the string form of a relative path: components separated by "/"
RECURSIVE PathStr(_)
PathStr(rel) ==
    IF Len(rel) = 0 THEN ""
    ELSE IF Len(rel) = 1 THEN rel[1]
    ELSE rel[1] \o "/" \o PathStr(Tail(rel))

(***************************************************************************)
(* IgnoreMatcher: parseRohitIgnore and shouldIgnore                        *)
(***************************************************************************)

\* characters String.prototype.trim removes
IsSpace(c) == c \in {" ", "\t", "\r", "\n"}

\* String.prototype.trim
RECURSIVE Trim(_)
Trim(s) ==
    IF Len(s) = 0 THEN s
    ELSE IF IsSpace(Ch(s, 1)) THEN Trim(Tail(s))
    ELSE IF IsSpace(Ch(s, Len(s))) THEN Trim(SubSeq(s, 1, Len(s) - 1))
    ELSE s

\* content.split('\n'): the sequence of lines, "" after a final newline
RECURSIVE Split(_)
Split(s) ==
    IF ~Includes(s, "\n") THEN <<s>>
    ELSE LET k == CHOOSE n \in 1..Len(s) :
                    Ch(s, n) = "\n" /\ \A j \in 1..(n-1) : Ch(s, j) # "\n"
         IN <<SubSeq(s, 1, k - 1)>> \o Split(SubSeq(s, k + 1, Len(s)))

\* a rule that keeps the trailing '/' in its pattern
PatternOfKeepSlash(trimmed) ==
    [pattern |-> trimmed,
     isDirectory |-> EndsWith(trimmed, "/"),
     isGlob |-> Includes(trimmed, "*") \/ Includes(trimmed, "?")]

\* the rule one kept line yields
PatternOf(trimmed) ==
    LET isDirectory == EndsWith(trimmed, "/")
        pattern == IF isDirectory THEN SubSeq(trimmed, 1, Len(trimmed) - 1)
                   ELSE trimmed
    IN [pattern |-> pattern,
        isDirectory |-> isDirectory,
        isGlob |-> Includes(pattern, "*") \/ Includes(pattern, "?")]

\* the loop over the lines of the ignore file
RECURSIVE ParseLines(_)
ParseLines(lines) ==
    IF Len(lines) = 0 THEN <<>>
    ELSE LET trimmed == Trim(Head(lines))
         IN (IF trimmed # "" /\ ~StartsWith(trimmed, "#")
             THEN <<PatternOf(trimmed)>> ELSE <<>>) \o ParseLines(Tail(lines))

\* an ignore file that does not exist, and one that cannot be read
Absent == "<absent>"
Unreadable == "<unreadable>"

\* a project without ignore file from which src/gen/a.txt has been deleted
\* since the session began
Shrunk == "<absent, src/gen/a.txt deleted>"

\* the ignore files the project may have
IgnoreSources == { Absent, "*.log\ntmp/\n# c\ngen/\n" }

\* parseRohitIgnore for the state of the ignore file: Absent, Unreadable, or
\* its text
parseRohitIgnore(source) ==
    IF source \in {Absent, Shrunk} THEN <<>>
    ELSE IF source = Unreadable THEN <<>>
    ELSE ParseLines(Split(source))

\* pattern.replace(/\*/g, '.*')
RECURSIVE RegexPattern(_)
RegexPattern(p) ==
    IF Len(p) = 0 THEN ""
    ELSE (IF Ch(p, 1) = "*" THEN ".*" ELSE Ch(p, 1)) \o RegexPattern(Tail(p))

\* the regular-expression source compiles: no quantifier ('*' or '?')
\* without an atom before it; a '?' right after a quantifier makes it lazy
RECURSIVE RegexValid(_, _)
RegexValid(r, n) ==
    IF n > Len(r) THEN TRUE
    ELSE IF Ch(r, n) \in {"*", "?"} THEN FALSE
    ELSE IF n + 1 <= Len(r) /\ Ch(r, n + 1) \in {"*", "?"}
         THEN IF n + 2 <= Len(r) /\ Ch(r, n + 2) = "?"
              THEN RegexValid(r, n + 3) ELSE RegexValid(r, n + 2)
    ELSE RegexValid(r, n + 1)

\* the atom at r[n] accepts the character c ('.' accepts any character)
AtomAccepts(r, n, c) == Ch(r, n) = "." \/ Ch(r, n) = c

\* new RegExp(`^${r}$`).test(s), from position n of r and j of s
RECURSIVE RegexTest(_, _, _, _)
RegexTest(r, n, s, j) ==
    IF n > Len(r) THEN j > Len(s)
    ELSE LET quant == IF n + 1 <= Len(r) /\ Ch(r, n + 1) \in {"*", "?"}
                      THEN Ch(r, n + 1) ELSE ""
             lazy == quant # "" /\ n + 2 <= Len(r) /\ Ch(r, n + 2) = "?"
             next == IF quant = "" THEN n + 1 ELSE IF lazy THEN n + 3 ELSE n + 2
             here == j <= Len(s) /\ AtomAccepts(r, n, Ch(s, j))
         IN IF quant = "" THEN here /\ RegexTest(r, next, s, j + 1)
            ELSE IF quant = "?"
                 THEN RegexTest(r, next, s, j)
                      \/ (here /\ RegexTest(r, next, s, j + 1))
            ELSE RegexTest(r, next, s, j)
                 \/ (here /\ RegexTest(r, n, s, j + 1))

\* a loop over the rules that tries directory rules on files as well
RECURSIVE ShouldIgnoreFromNoSkip(_, _, _, _, _)
ShouldIgnoreFromNoSkip(k, itemName, relativePath, isDirectory, patterns) ==
    IF k > Len(patterns) THEN "no"
    ELSE LET pattern == patterns[k]
             regexPattern == RegexPattern(pattern.pattern)
             rest == ShouldIgnoreFromNoSkip(k + 1, itemName, relativePath,
                                            isDirectory, patterns)
         IN IF pattern.isGlob
            THEN IF ~RegexValid(regexPattern, 1) THEN "throw"
                 ELSE IF RegexTest(regexPattern, 1, itemName, 1)
                         \/ RegexTest(regexPattern, 1, relativePath, 1)
                      THEN "yes" ELSE rest
            ELSE IF itemName = pattern.pattern \/ relativePath = pattern.pattern
                 THEN "yes" ELSE rest

\* shouldIgnore from rule k on: "yes", "no", or "throw" when a wildcard
\* rule that is reached does not compile
RECURSIVE ShouldIgnoreFrom(_, _, _, _, _)
ShouldIgnoreFrom(k, itemName, relativePath, isDirectory, patterns) ==
    IF k > Len(patterns) THEN "no"
    ELSE LET pattern == patterns[k]
             regexPattern == RegexPattern(pattern.pattern)
             rest == ShouldIgnoreFrom(k + 1, itemName, relativePath,
                                      isDirectory, patterns)
         IN IF pattern.isDirectory /\ ~isDirectory THEN rest
            ELSE IF pattern.isGlob
                 THEN IF ~RegexValid(regexPattern, 1) THEN "throw"
                      ELSE IF RegexTest(regexPattern, 1, itemName, 1)
                              \/ RegexTest(regexPattern, 1, relativePath, 1)
                           THEN "yes" ELSE rest
            ELSE IF itemName = pattern.pattern \/ relativePath = pattern.pattern
                 THEN "yes" ELSE rest

\* shouldIgnore(itemPath, workspaceRoot, isDirectory, rohitIgnorePatterns)
shouldIgnore(itemPath, workspaceRoot, isDirectory, patterns) ==
    ShouldIgnoreFrom(1, BaseName(itemPath),
                     PathStr(Relative(workspaceRoot, itemPath)),
                     isDirectory, patterns)

(***************************************************************************)
(* The project tree the session runs on                                    *)
(***************************************************************************)

\* workspaceFolders[0].uri.fsPath
WorkspaceRoot == <<"w">>

\* fs.readdirSync(dir): the names of the entries of dir, in the order the
\* file system returns them; the ignore file is there unless it is Absent,
\* src/gen/a.txt unless the project is Shrunk.
\* "lost" is an entry that is gone when it is looked at, "cache" a
\* directory that cannot be read
readdirSync(dir, source) ==
    CASE dir = <<"w">> ->
           IF source \in {Absent, Shrunk}
           THEN << "a.txt", "out", "src", "tmp" >>
           ELSE << ".rohitignore", "a.txt", "out", "src", "tmp" >>
      [] dir = <<"w", "src", ".cfg">> -> << "k.txt", "lost", "m.txt" >>
      [] dir = <<"w", "out">> -> << "x.js" >>
      [] dir = <<"w", "src">> -> << ".cfg", "b.log", "cache", "gen" >>
      [] dir = <<"w", "src", "gen">> ->
           IF source = Shrunk THEN << >> ELSE << "a.txt" >>
      [] dir = <<"w", "tmp">> -> << >>
      [] OTHER -> << >>

\* fs.readdirSync(dir) throws: dir cannot be read, or is not a directory
\* of the project
ReaddirThrows(dir) ==
    dir \notin { <<"w">>, <<"w", "out">>, <<"w", "src">>, <<"w", "src", ".cfg">>,
                 <<"w", "src", "gen">>, <<"w", "tmp">> }

\* fs.copyFileSync(p, ...) finds its source
SourceExists(p, source) ==
    ~(source = Shrunk /\ p = <<"w", "src", "gen", "a.txt">>)

\* fs.statSync(p) throws: the entry is gone
StatThrows(p) == p = <<"w", "src", ".cfg", "lost">>

\* the directories of the project
ProjectDirs ==
    { WorkspaceRoot,
      <<"w", "out">>, <<"w", "src">>, <<"w", "tmp">>,
      <<"w", "src", ".cfg">>, <<"w", "src", "cache">>, <<"w", "src", "gen">> }

\* the regular files of the project
ProjectFiles ==
    { <<"w", ".rohitignore">>, <<"w", "a.txt">>, <<"w", "out", "x.js">>,
      <<"w", "src", ".cfg", "k.txt">>, <<"w", "src", ".cfg", "m.txt">>,
      <<"w", "src", "b.log">>, <<"w", "src", "gen", "a.txt">> }

\* String.prototype.localeCompare on the names of the project, as the rank
\* of a name in collation order
LocaleRank ==
    ".cfg" :> 1 @@ ".rohitignore" :> 2 @@ "a.txt" :> 3 @@ "b.log" :> 4
    @@ "cache" :> 5 @@ "gen" :> 6 @@ "k.txt" :> 7 @@ "lost" :> 8
    @@ "m.txt" :> 9 @@ "out" :> 10 @@ "src" :> 11 @@ "tmp" :> 12
    @@ "x.js" :> 13

\* fs.statSync(p).isDirectory()
IsDirectory(p) == p \in ProjectDirs

(***************************************************************************)
(* DirectoryScanner: getDirectoryContents and getAllFilesInDirectory       *)
(***************************************************************************)

ignoredDirs ==
    { ".git", "node_modules", ".vscode", "dist", "build", "out", ".next",
      ".nuxt", "coverage", "target", "bin", "obj" }

ignoredFiles ==
    { ".DS_Store", "Thumbs.db", ".gitignore", ".eslintrc", ".prettierrc",
      "package-lock.json", "yarn.lock" }

\* the skip tests without the one for hidden entries
EntryVerdictShowsHidden(entry, itemPath, workspaceRoot, opts, patterns) ==
    LET isDirectory == IsDirectory(itemPath)
    IN IF StatThrows(itemPath) THEN "throw"
       ELSE IF isDirectory /\ entry \in ignoredDirs THEN "skip"
       ELSE IF ~isDirectory /\ entry \in ignoredFiles THEN "skip"
       ELSE LET ig == shouldIgnore(itemPath, workspaceRoot, isDirectory, patterns)
            IN IF ig = "throw" THEN "throw"
               ELSE IF ig = "yes" THEN "skip" ELSE "keep"

\* statSync and the four skip tests of one loop iteration: "skip", "keep",
\* or "throw" when statSync or shouldIgnore throws
EntryVerdict(entry, itemPath, workspaceRoot, opts, patterns) ==
    LET isDirectory == IsDirectory(itemPath)
    IN IF StatThrows(itemPath) THEN "throw"
       ELSE IF ~opts.includeHiddenFiles /\ StartsWith(entry, ".") THEN "skip"
       ELSE IF isDirectory /\ entry \in ignoredDirs THEN "skip"
       ELSE IF ~isDirectory /\ entry \in ignoredFiles THEN "skip"
       ELSE LET ig == shouldIgnore(itemPath, workspaceRoot, isDirectory, patterns)
            IN IF ig = "throw" THEN "throw"
               ELSE IF ig = "yes" THEN "skip" ELSE "keep"

\* the for loop of getDirectoryContents from entry k on; an exception ends
\* the loop and keeps the items pushed before it
RECURSIVE ContentsFrom(_, _, _, _, _, _)
ContentsFrom(entries, k, dirPath, workspaceRoot, opts, patterns) ==
    IF k > Len(entries) THEN <<>>
    ELSE LET itemPath == Join(dirPath, entries[k])
             verdict == EntryVerdict(entries[k], itemPath, workspaceRoot,
                                     opts, patterns)
             rest == ContentsFrom(entries, k + 1, dirPath, workspaceRoot,
                                  opts, patterns)
         IN IF verdict = "throw" THEN <<>>
            ELSE IF verdict = "skip" THEN rest
            ELSE <<[filePath |-> itemPath,
                    isDirectory |-> IsDirectory(itemPath)]>> \o rest

\* the comparator of items.sort: a negative result, a sorts before b
SortsBefore(a, b) ==
    IF a.isDirectory # b.isDirectory THEN a.isDirectory
    ELSE LocaleRank[BaseName(a.filePath)] < LocaleRank[BaseName(b.filePath)]

\* one item put into a sorted sequence, after the items it does not sort before
RECURSIVE InsertItem(_, _)
InsertItem(sorted, item) ==
    IF Len(sorted) = 0 THEN <<item>>
    ELSE IF SortsBefore(item, Head(sorted)) THEN <<item>> \o sorted
    ELSE <<Head(sorted)>> \o InsertItem(Tail(sorted), item)

\* items.sort(...): directories first, then by label; the sort is stable
RECURSIVE SortItems(_)
SortItems(list) ==
    IF Len(list) = 0 THEN <<>>
    ELSE InsertItem(SortItems(SubSeq(list, 1, Len(list) - 1)), list[Len(list)])

\* getDirectoryContents without its items.sort
getDirectoryContentsUnsorted(dirPath, workspaceRoot, opts, patterns, source) ==
    IF ReaddirThrows(dirPath) THEN <<>>
    ELSE ContentsFrom(readdirSync(dirPath, source), 1, dirPath,
                      workspaceRoot, opts, patterns)

\* getDirectoryContents(dirPath, workspaceRoot, options, rohitIgnorePatterns)
getDirectoryContents(dirPath, workspaceRoot, opts, patterns, source) ==
    SortItems(IF ReaddirThrows(dirPath) THEN <<>>
              ELSE ContentsFrom(readdirSync(dirPath, source), 1, dirPath,
                                workspaceRoot, opts, patterns))

\* a scanDirectory that applies the skip tests to files only and descends
\* into every directory
RECURSIVE ScanFromEveryDir(_, _, _, _, _, _, _)
ScanFromEveryDir(entries, k, currentPath, workspaceRoot, opts, patterns, source) ==
    IF k > Len(entries) THEN <<>>
    ELSE LET itemPath == Join(currentPath, entries[k])
             verdict == EntryVerdict(entries[k], itemPath, workspaceRoot,
                                     opts, patterns)
             rest == ScanFromEveryDir(entries, k + 1, currentPath, workspaceRoot,
                                      opts, patterns, source)
         IN IF verdict = "throw" THEN <<>>
            ELSE IF IsDirectory(itemPath)
                 THEN (IF ReaddirThrows(itemPath) THEN <<>>
                       ELSE ScanFromEveryDir(readdirSync(itemPath, source), 1,
                                             itemPath, workspaceRoot, opts,
                                             patterns, source))
                      \o rest
            ELSE IF verdict = "skip" THEN rest
            ELSE <<itemPath>> \o rest

\* scanDirectory(currentPath) of getAllFilesInDirectory, from entry k on:
\* the files it pushes; each directory level has its own try/catch
RECURSIVE ScanFrom(_, _, _, _, _, _, _)
ScanFrom(entries, k, currentPath, workspaceRoot, opts, patterns, source) ==
    IF k > Len(entries) THEN <<>>
    ELSE LET itemPath == Join(currentPath, entries[k])
             verdict == EntryVerdict(entries[k], itemPath, workspaceRoot,
                                     opts, patterns)
             rest == ScanFrom(entries, k + 1, currentPath, workspaceRoot,
                              opts, patterns, source)
         IN IF verdict = "throw" THEN <<>>
            ELSE IF verdict = "skip" THEN rest
            ELSE IF IsDirectory(itemPath)
                 THEN (IF ReaddirThrows(itemPath) THEN <<>>
                       ELSE ScanFrom(readdirSync(itemPath, source), 1, itemPath,
                                     workspaceRoot, opts, patterns, source))
                      \o rest
            ELSE <<itemPath>> \o rest

\* getAllFilesInDirectory(dirPath, workspaceRoot, options, rohitIgnorePatterns)
getAllFilesInDirectory(dirPath, workspaceRoot, opts, patterns, source) ==
    IF ReaddirThrows(dirPath) THEN <<>>
    ELSE ScanFrom(readdirSync(dirPath, source), 1, dirPath, workspaceRoot, opts,
                  patterns, source)

(***************************************************************************)
(* SelectionModel: isItemSelected                                          *)
(***************************************************************************)

\* selectedFiles.some(f => f.filePath === p)
IsMember(p, files) == \E k \in 1..Len(files) : files[k] = p

\* isItemSelected without the test for an empty listing
isItemSelectedNoEmptyCheck(itemPath, isDirectory, files, workspaceRoot, opts, patterns, source) ==
    IF ~isDirectory THEN IsMember(itemPath, files)
    ELSE LET allFilesInDir == getAllFilesInDirectory(itemPath, workspaceRoot,
                                                     opts, patterns, source)
         IN \A k \in 1..Len(allFilesInDir) : IsMember(allFilesInDir[k], files)

\* isItemSelected(itemPath, isDirectory, selectedFiles, ...)
isItemSelected(itemPath, isDirectory, files, workspaceRoot, opts, patterns, source) ==
    IF ~isDirectory THEN IsMember(itemPath, files)
    ELSE LET allFilesInDir == getAllFilesInDirectory(itemPath, workspaceRoot,
                                                     opts, patterns, source)
         IN IF Len(allFilesInDir) = 0 THEN FALSE
            ELSE \A k \in 1..Len(allFilesInDir) :
                     IsMember(allFilesInDir[k], files)

(***************************************************************************)
(* State                                                                   *)
(***************************************************************************)

VARIABLES
    pc,                  \* where backupProject is suspended
    workspaceFolders,    \* number of workspace folders open
    ignoreSource,        \* the project's files: Absent, Unreadable or the text of
                         \* the ignore file; Shrunk after a deletion
    options,             \* BackupOptions, field by field as the prompts are answered
    rohitIgnorePatterns, \* the parsed rules
    selectedFiles,       \* navigateAndSelectFiles: file paths, in insertion order
    everSelected,        \* the selection has held a file at some time
    currentPath,         \* navigateAndSelectFiles: the directory shown
    items,               \* navigateAndSelectFiles: the list the picker shows
    selected,            \* the directory item the sub-prompt is about
    lastChoice,          \* what the user last did in a picker or dialog
    selectedItems,       \* backupProject: what navigateAndSelectFiles returned
    destinationFolder,   \* backupProject: the effective destination root
    dstFiles,            \* destination file system: files as [path, content]
    dstDirs,             \* destination file system: directories
    dstBefore,           \* dstFiles when the destination was chosen
    i,                   \* the loop index of the copy loop
    reports,             \* progress.report calls made
    written,             \* the path each successful copyFileSync wrote
    events,              \* the copies and progress reports of the loop, in order
    destAsked,           \* showOpenDialog has been called
    shown,               \* messages backupProject has shown, in order
    srcLines,            \* IgnoreMatcher alone: the lines the ignore file was written with
    probeEntry,          \* IgnoreMatcher alone: the entry shouldIgnore was last called on
    probeResult          \* IgnoreMatcher alone: what that call returned

vars == << pc, workspaceFolders, ignoreSource, options, rohitIgnorePatterns,
           selectedFiles, everSelected, currentPath, items, selected, lastChoice,
           selectedItems, destinationFolder, dstFiles, dstDirs, dstBefore, i, reports,
           written, events, destAsked, shown, srcLines, probeEntry, probeResult >>

navVars == << selectedFiles, everSelected, currentPath, items, selected, lastChoice >>
copyVars == << destinationFolder, dstFiles, dstDirs, dstBefore, i, reports, written,
              events >>
envVars == << workspaceFolders, ignoreSource, srcLines, probeEntry, probeResult >>

\* no entry: the value of probeEntry before shouldIgnore is called
NoEntry == [path |-> <<>>, isDirectory |-> FALSE]

\* no item: the value of `selected` outside the sub-prompt
NoItem == [filePath |-> <<>>, isDirectory |-> FALSE, isParent |-> FALSE,
           isSelected |-> FALSE]

Init ==
    /\ pc = "start"
    /\ workspaceFolders \in {0, 1}
    /\ ignoreSource \in IgnoreSources
    /\ options = [preserveStructure |-> FALSE, includeHiddenFiles |-> FALSE,
                  createTimestampFolder |-> FALSE]
    /\ rohitIgnorePatterns = <<>>
    /\ selectedFiles = <<>>
    /\ everSelected = FALSE
    /\ currentPath = WorkspaceRoot
    /\ items = <<>>
    /\ selected = NoItem
    /\ lastChoice = "none"
    /\ selectedItems = <<>>
    /\ destinationFolder = <<>>
    /\ dstFiles = {}
    /\ dstDirs = {}
    /\ dstBefore = {}
    /\ i = 0
    /\ reports = 0
    /\ written = <<>>
    /\ events = <<>>
    /\ destAsked = FALSE
    /\ shown = <<>>
    /\ srcLines = <<>>
    /\ probeEntry = NoEntry
    /\ probeResult = "none"

(***************************************************************************)
(* backupProject up to the navigator, and getBackupOptions                 *)
(***************************************************************************)

\* backupProject: the workspace check, then the first prompt
Start ==
    /\ pc = "start"
    /\ IF workspaceFolders = 0
       THEN /\ shown' = Append(shown, "No workspace folder is open.")
            /\ pc' = "done"
       ELSE /\ pc' = "askPreserve"
            /\ UNCHANGED shown
    /\ UNCHANGED << envVars, options, rohitIgnorePatterns, navVars,
                    selectedItems, copyVars, destAsked >>

\* a prompt of getBackupOptions is cancelled: options is undefined and
\* backupProject returns
OptionsCancel ==
    /\ pc \in {"askPreserve", "askHidden", "askTimestamp"}
    /\ pc' = "done"
    /\ lastChoice' = "cancel options"
    /\ UNCHANGED << envVars, options, rohitIgnorePatterns, selectedFiles, everSelected,
                    currentPath, items, selected, selectedItems, copyVars,
                    destAsked, shown >>

\* 'Preserve directory structure in backup?'
AnswerPreserve(answer) ==
    /\ pc = "askPreserve"
    /\ options' = [options EXCEPT !.preserveStructure = (answer = "Yes")]
    /\ pc' = "askHidden"
    /\ UNCHANGED << envVars, rohitIgnorePatterns, navVars, selectedItems,
                    copyVars, destAsked, shown >>

\* 'Include hidden files and folders?'
AnswerHidden(answer) ==
    /\ pc = "askHidden"
    /\ options' = [options EXCEPT !.includeHiddenFiles = (answer = "Yes")]
    /\ pc' = "askTimestamp"
    /\ UNCHANGED << envVars, rohitIgnorePatterns, navVars, selectedItems,
                    copyVars, destAsked, shown >>

\* the list one loop iteration presents: the directory contents with their
\* isSelected, the parent item first unless at the root, the Done item last
RECURSIVE Annotate(_, _, _, _, _)
Annotate(contents, files, opts, patterns, source) ==
    IF Len(contents) = 0 THEN <<>>
    ELSE <<[filePath |-> Head(contents).filePath,
            isDirectory |-> Head(contents).isDirectory,
            isParent |-> FALSE,
            isSelected |-> isItemSelected(Head(contents).filePath,
                               Head(contents).isDirectory, files, WorkspaceRoot,
                               opts, patterns, source)]>>
         \o Annotate(Tail(contents), files, opts, patterns, source)

\* filePath of the "Done" item
DonePath == <<"done">>

\* the list with the parent item at the root as well
PresentedItemsAlwaysParent(dir, files, opts, patterns, source) ==
    <<[filePath |-> DirName(dir), isDirectory |-> TRUE,
       isParent |-> TRUE, isSelected |-> FALSE]>>
    \o Annotate(getDirectoryContents(dir, WorkspaceRoot, opts, patterns, source),
                files, opts, patterns, source)
    \o <<[filePath |-> DonePath, isDirectory |-> FALSE, isParent |-> FALSE,
          isSelected |-> FALSE]>>

\* the list one loop iteration presents
PresentedItems(dir, files, opts, patterns, source) ==
    (IF dir # WorkspaceRoot
     THEN <<[filePath |-> DirName(dir), isDirectory |-> TRUE,
             isParent |-> TRUE, isSelected |-> FALSE]>>
     ELSE <<>>)
    \o Annotate(getDirectoryContents(dir, WorkspaceRoot, opts, patterns, source),
                files, opts, patterns, source)
    \o <<[filePath |-> DonePath, isDirectory |-> FALSE, isParent |-> FALSE,
          isSelected |-> FALSE]>>

\* 'Create timestamped backup folder?', then parseRohitIgnore and the
\* first picker of navigateAndSelectFiles
AnswerTimestamp(answer) ==
    /\ pc = "askTimestamp"
    /\ options' = [options EXCEPT !.createTimestampFolder = (answer = "Yes")]
    /\ rohitIgnorePatterns' = parseRohitIgnore(ignoreSource)
    /\ selectedFiles' = <<>>
    /\ everSelected' = FALSE
    /\ currentPath' = WorkspaceRoot
    /\ items' = PresentedItems(currentPath', selectedFiles', options',
                               rohitIgnorePatterns', ignoreSource)
    /\ pc' = "browse"
    /\ UNCHANGED << envVars, selected, lastChoice, selectedItems, copyVars,
                    destAsked, shown >>

(***************************************************************************)
(* Navigator: navigateAndSelectFiles                                       *)
(***************************************************************************)

\* a loop iteration that shows the list it built last time when the
\* directory is the same
NextIterationCached ==
    /\ items' = IF currentPath' = currentPath /\ Len(items) > 0 THEN items
                ELSE PresentedItems(currentPath', selectedFiles', options,
                                    rohitIgnorePatterns, ignoreSource)
    /\ pc' = "browse"

\* the next loop iteration builds its list and shows the picker
NextIteration ==
    /\ items' = PresentedItems(currentPath', selectedFiles', options,
                               rohitIgnorePatterns, ignoreSource)
    /\ pc' = "browse"

\* a dismissed picker that returns what was selected so far
PickCancelPartial ==
    /\ pc = "browse"
    /\ selectedItems' = selectedFiles
    /\ IF Len(selectedFiles) = 0
       THEN /\ shown' = Append(shown, "No files selected for backup.")
            /\ pc' = "done"
            /\ UNCHANGED destAsked
       ELSE /\ destAsked' = TRUE
            /\ pc' = "askDest"
            /\ UNCHANGED shown
    /\ items' = <<>>
    /\ lastChoice' = "cancel"
    /\ UNCHANGED << envVars, options, rohitIgnorePatterns, selectedFiles, everSelected,
                    currentPath, selected, copyVars >>

\* the picker is dismissed: navigateAndSelectFiles returns [], and
\* backupProject reports that nothing was selected
PickCancel ==
    /\ pc = "browse"
    /\ selectedItems' = <<>>
    /\ shown' = Append(shown, "No files selected for backup.")
    /\ items' = <<>>
    /\ lastChoice' = "cancel"
    /\ pc' = "done"
    /\ UNCHANGED << envVars, options, rohitIgnorePatterns, selectedFiles, everSelected,
                    currentPath, selected, copyVars, destAsked >>

\* a "Done" after which backupProject does not test for an empty result
PickDoneNoEmptyCheck ==
    /\ pc = "browse"
    /\ \E k \in 1..Len(items) : items[k].filePath = DonePath
    /\ selectedItems' = selectedFiles
    /\ destAsked' = TRUE
    /\ pc' = "askDest"
    /\ currentPath' = WorkspaceRoot
    /\ items' = <<>>
    /\ lastChoice' = "done"
    /\ UNCHANGED << envVars, options, rohitIgnorePatterns, selectedFiles,
                    everSelected, selected, copyVars, shown >>

\* a "Done" that returns the selection without its first file
PickDoneDropsFirst ==
    /\ pc = "browse"
    /\ \E k \in 1..Len(items) : items[k].filePath = DonePath
    /\ selectedItems' = SubSeq(selectedFiles, 2, Len(selectedFiles))
    /\ IF Len(selectedFiles) = 0
       THEN /\ shown' = Append(shown, "No files selected for backup.")
            /\ pc' = "done"
            /\ UNCHANGED destAsked
       ELSE /\ destAsked' = TRUE
            /\ pc' = "askDest"
            /\ UNCHANGED shown
    /\ currentPath' = WorkspaceRoot
    /\ items' = <<>>
    /\ lastChoice' = "done"
    /\ UNCHANGED << envVars, options, rohitIgnorePatterns, selectedFiles, everSelected,
                    selected, copyVars >>

\* "Done": navigateAndSelectFiles returns selectedFiles; backupProject stops
\* on an empty result and otherwise opens the destination dialog
PickDone ==
    /\ pc = "browse"
    /\ \E k \in 1..Len(items) : items[k].filePath = DonePath
    /\ selectedItems' = selectedFiles
    /\ IF Len(selectedFiles) = 0
       THEN /\ shown' = Append(shown, "No files selected for backup.")
            /\ pc' = "done"
            /\ UNCHANGED destAsked
       ELSE /\ destAsked' = TRUE
            /\ pc' = "askDest"
            /\ UNCHANGED shown
    /\ currentPath' = WorkspaceRoot
    /\ items' = <<>>
    /\ lastChoice' = "done"
    /\ UNCHANGED << envVars, options, rohitIgnorePatterns, selectedFiles, everSelected,
                    selected, copyVars >>

\* a parent item that leads to the workspace root
PickParentToRoot ==
    /\ pc = "browse"
    /\ \E k \in 1..Len(items) :
          /\ items[k].filePath # DonePath
          /\ items[k].isParent
          /\ currentPath' = WorkspaceRoot
    /\ lastChoice' = "parent"
    /\ UNCHANGED << envVars, options, rohitIgnorePatterns, selectedFiles, everSelected,
                    selected, selectedItems, copyVars, destAsked, shown >>
    /\ NextIteration

\* ".. (Parent Directory)"
PickParent ==
    /\ pc = "browse"
    /\ \E k \in 1..Len(items) :
          /\ items[k].filePath # DonePath
          /\ items[k].isParent
          /\ currentPath' = items[k].filePath
    /\ lastChoice' = "parent"
    /\ UNCHANGED << envVars, options, rohitIgnorePatterns, selectedFiles, everSelected,
                    selected, selectedItems, copyVars, destAsked, shown >>
    /\ NextIteration

\* a directory item: the enter/toggle sub-prompt is shown
PickDirectory ==
    /\ pc = "browse"
    /\ \E k \in 1..Len(items) :
          /\ items[k].filePath # DonePath
          /\ ~items[k].isParent
          /\ items[k].isDirectory
          /\ selected' = items[k]
    /\ lastChoice' = "directory"
    /\ pc' = "dirAction"
    /\ UNCHANGED << envVars, options, rohitIgnorePatterns, selectedFiles, everSelected,
                    currentPath, items, selectedItems, copyVars, destAsked,
                    shown >>

\* selectedFiles.splice(findIndex(p)): everything from p on is removed
RemoveFirstToEnd(files, p) ==
    IF IsMember(p, files)
    THEN LET k == CHOOSE n \in 1..Len(files) :
                    files[n] = p /\ \A m \in 1..(n-1) : files[m] # p
         IN SubSeq(files, 1, k - 1)
    ELSE files

\* selectedFiles.splice(findIndex(p), 1) when p is found
RemoveFirst(files, p) ==
    IF IsMember(p, files)
    THEN LET k == CHOOSE n \in 1..Len(files) :
                    files[n] = p /\ \A m \in 1..(n-1) : files[m] # p
         IN SubSeq(files, 1, k - 1) \o SubSeq(files, k + 1, Len(files))
    ELSE files

\* a file toggle that only pushes
ToggleFileAlwaysAdd(files, p) == Append(files, p)

\* the file toggle
ToggleFile(files, p) ==
    IF IsMember(p, files) THEN RemoveFirst(files, p) ELSE Append(files, p)

\* a file item: toggle it
PickFile ==
    /\ pc = "browse"
    /\ \E k \in 1..Len(items) :
          /\ items[k].filePath # DonePath
          /\ ~items[k].isParent
          /\ ~items[k].isDirectory
          /\ selectedFiles' = ToggleFile(selectedFiles, items[k].filePath)
    /\ everSelected' = (everSelected \/ Len(selectedFiles') > 0)
    /\ lastChoice' = "file"
    /\ UNCHANGED << envVars, options, rohitIgnorePatterns, currentPath,
                    selected, selectedItems, copyVars, destAsked, shown >>
    /\ NextIteration

\* a dismissed sub-prompt that ends the session like a dismissed picker
ActionCancelEndsSession ==
    /\ pc = "dirAction"
    /\ selected' = NoItem
    /\ lastChoice' = "cancel action"
    /\ selectedItems' = <<>>
    /\ shown' = Append(shown, "No files selected for backup.")
    /\ items' = <<>>
    /\ pc' = "done"
    /\ UNCHANGED << envVars, options, rohitIgnorePatterns, selectedFiles, everSelected,
                    currentPath, copyVars, destAsked >>

\* the sub-prompt is dismissed: `continue`
ActionCancel ==
    /\ pc = "dirAction"
    /\ selected' = NoItem
    /\ lastChoice' = "cancel action"
    /\ UNCHANGED << envVars, options, rohitIgnorePatterns, selectedFiles, everSelected,
                    currentPath, selectedItems, copyVars, destAsked, shown >>
    /\ NextIteration

\* "Enter Folder"
EnterFolder ==
    /\ pc = "dirAction"
    /\ currentPath' = selected.filePath
    /\ selected' = NoItem
    /\ lastChoice' = "enter"
    /\ UNCHANGED << envVars, options, rohitIgnorePatterns, selectedFiles, everSelected,
                    selectedItems, copyVars, destAsked, shown >>
    /\ NextIteration

\* a deselect loop that stops after the first file
RemoveAllFirstOnly(files, allFilesInDir) ==
    IF Len(allFilesInDir) = 0 THEN files
    ELSE RemoveFirst(files, Head(allFilesInDir))

\* the deselect loop of the folder toggle
RECURSIVE RemoveAll(_, _)
RemoveAll(files, allFilesInDir) ==
    IF Len(allFilesInDir) = 0 THEN files
    ELSE RemoveAll(RemoveFirst(files, Head(allFilesInDir)), Tail(allFilesInDir))

\* a select loop that pushes every file of the folder
AddAllNoCheck(files, allFilesInDir) == files \o allFilesInDir

\* the select loop of the folder toggle
RECURSIVE AddAll(_, _)
AddAll(files, allFilesInDir) ==
    IF Len(allFilesInDir) = 0 THEN files
    ELSE AddAll(IF IsMember(Head(allFilesInDir), files) THEN files
                ELSE Append(files, Head(allFilesInDir)),
                Tail(allFilesInDir))

\* the folder toggle on the item as it was presented
ToggleDirectory(files, item, opts, patterns, source) ==
    LET allFilesInDir == getAllFilesInDirectory(item.filePath, WorkspaceRoot,
                                                opts, patterns, source)
        isCurrentlySelected == item.isSelected
    IN IF isCurrentlySelected THEN RemoveAll(files, allFilesInDir)
       ELSE AddAll(files, allFilesInDir)

\* "Toggle Selection"
ToggleSelection ==
    /\ pc = "dirAction"
    /\ selectedFiles' = ToggleDirectory(selectedFiles, selected, options,
                                        rohitIgnorePatterns, ignoreSource)
    /\ everSelected' = (everSelected \/ Len(selectedFiles') > 0)
    /\ selected' = NoItem
    /\ lastChoice' = IF selected.isSelected THEN "toggle off" ELSE "toggle on"
    /\ UNCHANGED << envVars, options, rohitIgnorePatterns, currentPath,
                    selectedItems, copyVars, destAsked, shown >>
    /\ NextIteration

(***************************************************************************)
(* The destination file system                                             *)
(***************************************************************************)

\* the folder the user picks in the destination dialog
DestRoot == <<"d">>

\* most files the picked folder holds beforehand
MaxPre == 2

\* files the picked folder may hold beforehand, relative to it; "src" is a
\* regular file that stands where the project has a directory, and with
\* "a.txt/z" a directory stands where the project has the file a.txt
PreCandidates ==
    { <<"a.txt">>, <<"a(1).txt">>, <<"src">>, <<"src", "b.log">>, <<"a.txt", "z">> }

\* content of a file that was in the destination beforehand
OldContent == <<"<old>">>

\* the proper, non-empty prefixes of a path
Ancestors(p) == { SubSeq(p, 1, n) : n \in 1..(Len(p) - 1) }

\* the sets of candidate files that can exist together
PreSets ==
    { S \in SUBSET PreCandidates :
        /\ Cardinality(S) <= MaxPre
        /\ \A f \in S, g \in S : f \notin Ancestors(g) }

\* an existence test that sees directories only
ExistsSyncDirsOnly(p, files, dirs) == p \in dirs

\* fs.existsSync
ExistsSync(p, files, dirs) == p \in dirs \/ \E f \in files : f.path = p

IsFileIn(p, files) == \E f \in files : f.path = p

\* fs.mkdirSync(dir, { recursive: true }): throws when dir or one of its
\* ancestors is a regular file, else creates what is missing
MkdirThrows(dir, files) ==
    \E q \in Ancestors(dir) \cup {dir} : IsFileIn(q, files)

MkdirResult(dir, dirs) == dirs \cup Ancestors(dir) \cup {dir}

(***************************************************************************)
(* CopyEngine: createBackupFolder and copyFileWithStructure                *)
(***************************************************************************)

\* new Date().toISOString() at the moment the folder is created
Now == "2024-01-15T10:30:45.123Z"

\* .replace(/[:.]/g, '-')
RECURSIVE ReplaceColonsDots(_)
ReplaceColonsDots(t) ==
    IF Len(t) = 0 THEN ""
    ELSE (IF Ch(t, 1) \in {":", "."} THEN "-" ELSE Ch(t, 1))
         \o ReplaceColonsDots(Tail(t))

\* a createBackupFolder that does not look at the option
createBackupFolderAlways(destinationPath, opts) ==
    Join(destinationPath, "backup-" \o ReplaceColonsDots(Now))

\* the path createBackupFolder returns
createBackupFolder(destinationPath, opts) ==
    IF opts.createTimestampFolder
    THEN Join(destinationPath, "backup-" \o ReplaceColonsDots(Now))
    ELSE destinationPath

\* a target path that drops the directories whatever the options say
FinalDestinationPathFlat(sourcePath, destinationPath, workspaceRoot, opts) ==
    Join(destinationPath, BaseName(sourcePath))

\* the path before any disambiguation
FinalDestinationPath(sourcePath, destinationPath, workspaceRoot, opts) ==
    IF opts.preserveStructure
    THEN JoinRel(destinationPath, Relative(workspaceRoot, sourcePath))
    ELSE Join(destinationPath, BaseName(sourcePath))

\* a candidate with the counter after the extension
CandidateAfterExt(finalDestinationPath, counter) ==
    Join(DirName(finalDestinationPath),
         BaseName(finalDestinationPath) \o "(" \o NumStr(counter) \o ")")

\* the candidate the loop builds for a counter value
Candidate(finalDestinationPath, counter) ==
    LET ext == ExtName(BaseName(finalDestinationPath))
        nameWithoutExt == BaseNameNoExt(BaseName(finalDestinationPath), ext)
        dir == DirName(finalDestinationPath)
    IN Join(dir, nameWithoutExt \o "(" \o NumStr(counter) \o ")" \o ext)

\* the copy without the existence loop
DisambiguateNoLoop(finalDestinationPath, actual, counter, files, dirs) ==
    actual

\* the while loop: the first path, starting at `actual`, that does not exist
RECURSIVE Disambiguate(_, _, _, _, _)
Disambiguate(finalDestinationPath, actual, counter, files, dirs) ==
    IF ExistsSync(actual, files, dirs)
    THEN Disambiguate(finalDestinationPath,
                      Candidate(finalDestinationPath, counter), counter + 1,
                      files, dirs)
    ELSE actual

\* a loop that tests a path in its condition and once more in its body
RECURSIVE ProbesTwice(_, _, _, _, _)
ProbesTwice(finalDestinationPath, actual, counter, files, dirs) ==
    IF ExistsSync(actual, files, dirs)
    THEN 2 + ProbesTwice(finalDestinationPath,
                         Candidate(finalDestinationPath, counter), counter + 1,
                         files, dirs)
    ELSE 1

\* the number of times the while loop evaluates fs.existsSync
RECURSIVE Probes(_, _, _, _, _)
Probes(finalDestinationPath, actual, counter, files, dirs) ==
    IF ExistsSync(actual, files, dirs)
    THEN 1 + Probes(finalDestinationPath,
                    Candidate(finalDestinationPath, counter), counter + 1,
                    files, dirs)
    ELSE 1

\* fs.copyFileSync(src, dest) on the set of files: dest is created or replaced
CopyFileSync(sourcePath, dest, files) ==
    { f \in files : f.path # dest } \cup { [path |-> dest, content |-> sourcePath] }

\* copyFileWithStructure on the destination (files, dirs); ioFails: the
\* platform copy fails. The result: did it throw, the destination after
\* it, the path written
copyFileWithStructure(sourcePath, destinationPath, workspaceRoot, opts, files, dirs, ioFails) ==
    LET finalDestinationPath ==
            FinalDestinationPath(sourcePath, destinationPath, workspaceRoot, opts)
        destinationDir == DirName(finalDestinationPath)
        needMkdir == opts.preserveStructure
                     /\ ~ExistsSync(destinationDir, files, dirs)
        mkdirThrows == needMkdir /\ MkdirThrows(destinationDir, files)
        dirs1 == IF needMkdir /\ ~mkdirThrows
                 THEN MkdirResult(destinationDir, dirs) ELSE dirs
        actualDestinationPath ==
            Disambiguate(finalDestinationPath, finalDestinationPath, 1,
                         files, dirs1)
        copyThrows == ioFails \/ DirName(actualDestinationPath) \notin dirs1
        probes == IF mkdirThrows THEN 0
                  ELSE Probes(finalDestinationPath, finalDestinationPath, 1,
                              files, dirs1)
    IN IF mkdirThrows \/ copyThrows
       THEN [threw |-> TRUE, files |-> files, dirs |-> dirs1, actual |-> <<>>,
             probes |-> probes]
       ELSE [threw |-> FALSE,
             files |-> CopyFileSync(sourcePath, actualDestinationPath, files),
             dirs |-> dirs1,
             actual |-> actualDestinationPath,
             probes |-> probes]

(***************************************************************************)
(* backupProject from the destination dialog on                            *)
(***************************************************************************)

\* a dismissed dialog after which backupProject returns without a message
DestCancelSilent ==
    /\ pc = "askDest"
    /\ pc' = "done"
    /\ lastChoice' = "cancel destination"
    /\ UNCHANGED << envVars, options, rohitIgnorePatterns, selectedFiles, everSelected,
                    currentPath, items, selected, selectedItems, copyVars,
                    destAsked, shown >>

\* the dialog is dismissed
DestCancel ==
    /\ pc = "askDest"
    /\ shown' = Append(shown, "No destination folder selected.")
    /\ pc' = "done"
    /\ lastChoice' = "cancel destination"
    /\ UNCHANGED << envVars, options, rohitIgnorePatterns, selectedFiles, everSelected,
                    currentPath, items, selected, selectedItems, copyVars,
                    destAsked >>

\* a folder holding the files `pre` is picked; createBackupFolder runs and
\* the copy loop is about to start. mkdirFails: creating the backup folder
\* fails, which the catch block reports
DestChosen(pre, mkdirFails) ==
    /\ pc = "askDest"
    /\ dstFiles' = { [path |-> JoinRel(DestRoot, r), content |-> OldContent] : r \in pre }
    /\ dstBefore' = dstFiles'
    /\ IF options.createTimestampFolder /\ mkdirFails
       THEN /\ dstDirs' = {DestRoot} \cup UNION { Ancestors(JoinRel(DestRoot, r)) : r \in pre }
            /\ shown' = Append(shown, "Backup failed")
            /\ pc' = "done"
            /\ UNCHANGED destinationFolder
       ELSE /\ destinationFolder' = createBackupFolder(DestRoot, options)
            /\ dstDirs' = {DestRoot, destinationFolder'}
                           \cup UNION { Ancestors(JoinRel(DestRoot, r)) : r \in pre }
            /\ pc' = "copy"
            /\ UNCHANGED shown
    /\ i' = 0
    /\ UNCHANGED << envVars, options, rohitIgnorePatterns, navVars,
                    selectedItems, reports, written, events, destAsked >>

\* progress.report before the copy of the iteration
IterationEventsReportFirst(n, total, threw, probes) ==
    << [op |-> "report", completed |-> n, of |-> total, probes |-> 0],
       [op |-> IF threw THEN "copy failed" ELSE "copied", completed |-> n,
        of |-> total, probes |-> probes] >>

\* what iteration n of the loop over `total` files does, in order: the copy,
\* with the existence tests it made, and progress.report unless the copy
\* threw
IterationEvents(n, total, threw, probes) ==
    IF threw THEN << [op |-> "copy failed", completed |-> n, of |-> total,
                      probes |-> probes] >>
    ELSE << [op |-> "copied", completed |-> n, of |-> total, probes |-> probes],
            [op |-> "report", completed |-> n, of |-> total, probes |-> 0] >>

\* a copy loop that catches the exception of a file and goes on
CopyStepSkipsFailure(ioFails) ==
    /\ pc = "copy"
    /\ i < Len(selectedItems)
    /\ LET r == copyFileWithStructure(selectedItems[i + 1], destinationFolder,
                                      WorkspaceRoot, options, dstFiles, dstDirs,
                                      ioFails \/ ~SourceExists(selectedItems[i + 1],
                                                               ignoreSource))
       IN /\ dstFiles' = r.files
          /\ dstDirs' = r.dirs
          /\ events' = events \o IterationEvents(i + 1, Len(selectedItems), r.threw,
                                                 r.probes)
          /\ i' = i + 1
          /\ IF r.threw
             THEN UNCHANGED << reports, written >>
             ELSE /\ written' = Append(written, r.actual)
                  /\ reports' = reports + 1
    /\ UNCHANGED << pc, shown, envVars, options, rohitIgnorePatterns, navVars,
                    selectedItems, destinationFolder, dstBefore, destAsked >>

\* one iteration of the copy loop; an exception leaves the loop and the
\* progress callback and is reported by the catch block
CopyStep(ioFails) ==
    /\ pc = "copy"
    /\ i < Len(selectedItems)
    /\ \E r \in { copyFileWithStructure(selectedItems[i + 1], destinationFolder,
                                      WorkspaceRoot, options, dstFiles, dstDirs,
                                      ioFails \/ ~SourceExists(selectedItems[i + 1],
                                                               ignoreSource)) } :
          /\ dstFiles' = r.files
          /\ dstDirs' = r.dirs
          /\ events' = events \o IterationEvents(i + 1, Len(selectedItems), r.threw,
                                                 r.probes)
          /\ IF r.threw
             THEN /\ shown' = Append(shown, "Backup failed")
                  /\ pc' = "done"
                  /\ UNCHANGED << i, reports, written >>
             ELSE /\ written' = Append(written, r.actual)
                  /\ reports' = reports + 1
                  /\ i' = i + 1
                  /\ UNCHANGED << pc, shown >>
    /\ UNCHANGED << envVars, options, rohitIgnorePatterns, navVars,
                    selectedItems, destinationFolder, dstBefore, destAsked >>

\* a success message that does not wait for the end of the loop
CopyFinishEarly ==
    /\ pc = "copy"
    /\ shown' = Append(shown, "Successfully backed up")
    /\ pc' = "askOpen"
    /\ UNCHANGED << envVars, options, rohitIgnorePatterns, navVars,
                    selectedItems, copyVars, destAsked >>

\* the loop is over: the success message with its 'Open Destination' button
CopyFinish ==
    /\ pc = "copy"
    /\ i >= Len(selectedItems)
    /\ shown' = Append(shown, "Successfully backed up")
    /\ pc' = "askOpen"
    /\ UNCHANGED << envVars, options, rohitIgnorePatterns, navVars,
                    selectedItems, copyVars, destAsked >>

\* the success message is answered: 'Open Destination' runs
\* vscode.openFolder, anything else ends the command
SuccessAnswer(result) ==
    /\ pc = "askOpen"
    /\ shown' = IF result = "Open Destination"
                THEN Append(shown, "vscode.openFolder") ELSE shown
    /\ pc' = "done"
    /\ UNCHANGED << envVars, options, rohitIgnorePatterns, navVars,
                    selectedItems, copyVars, destAsked >>

Next ==
    \/ Start
    \/ OptionsCancel
    \/ \E answer \in {"Yes", "No"} : AnswerPreserve(answer)
    \/ \E answer \in {"Yes", "No"} : AnswerHidden(answer)
    \/ \E answer \in {"Yes", "No"} : AnswerTimestamp(answer)
    \/ PickCancel
    \/ PickDone
    \/ PickParent
    \/ PickDirectory
    \/ PickFile
    \/ ActionCancel
    \/ EnterFolder
    \/ ToggleSelection
    \/ DestCancel
    \/ \E pre \in PreSets, mkdirFails \in BOOLEAN : DestChosen(pre, mkdirFails)
    \/ \E ioFails \in BOOLEAN : CopyStep(ioFails)
    \/ CopyFinish
    \/ \E result \in {"Open Destination", "dismissed"} : SuccessAnswer(result)

Spec == Init /\ [][Next]_vars

(***************************************************************************)
(* The copy phase alone: backupProject from the destination dialog on, for *)
(* the selections the navigator can return                                 *)
(***************************************************************************)

\* selections the navigator can return when there is no ignore file and
\* hidden files are excluded; two of the files have the same base name
CopyLists ==
    { << <<"w", "a.txt">> >>,
      << <<"w", "a.txt">>, <<"w", "src", "gen", "a.txt">> >>,
      << <<"w", "src", "gen", "a.txt">>, <<"w", "src", "b.log">>, <<"w", "a.txt">> >> }

\* what the picked folder may hold beforehand: nothing, files of the names
\* the copies ask for, a directory of such a name, a file where the project
\* has a directory
CopyPreSets ==
    { {}, { <<"a.txt">>, <<"a(1).txt">> }, { <<"a.txt", "z">> }, { <<"src">> } }

\* "Done" has been chosen and the destination dialog is open
CopyInit ==
    /\ pc = "askDest"
    /\ workspaceFolders = 1
    /\ ignoreSource = Absent
    /\ options \in [preserveStructure : BOOLEAN, includeHiddenFiles : {FALSE},
                    createTimestampFolder : BOOLEAN]
    /\ rohitIgnorePatterns = <<>>
    /\ selectedFiles \in CopyLists
    /\ everSelected = TRUE
    /\ currentPath = WorkspaceRoot
    /\ items = <<>>
    /\ selected = NoItem
    /\ lastChoice = "done"
    /\ selectedItems = selectedFiles
    /\ destinationFolder = <<>>
    /\ dstFiles = {}
    /\ dstDirs = {}
    /\ dstBefore = {}
    /\ i = 0
    /\ reports = 0
    /\ written = <<>>
    /\ events = <<>>
    /\ destAsked = TRUE
    /\ shown = <<>>
    /\ srcLines = <<>>
    /\ probeEntry = NoEntry
    /\ probeResult = "none"

CopyNext ==
    \/ DestCancel
    \/ \E pre \in CopyPreSets, mkdirFails \in BOOLEAN : DestChosen(pre, mkdirFails)
    \/ \E ioFails \in BOOLEAN : CopyStep(ioFails)
    \/ CopyFinish
    \/ \E result \in {"Open Destination", "dismissed"} : SuccessAnswer(result)

\* the copy loop is synchronous code: once withProgress has called it, it
\* runs each iteration and reaches its end without waiting for anything
CopySpec ==
    /\ CopyInit
    /\ [][CopyNext]_vars
    /\ WF_vars(\E ioFails \in BOOLEAN : CopyStep(ioFails))
    /\ WF_vars(CopyFinish)

(***************************************************************************)
(* A project that changes under the session                                *)
(***************************************************************************)

\* another program deletes src/gen/a.txt while a picker of the navigator
\* waits for the user; what the navigator holds is not touched
FileDeleted ==
    /\ pc \in {"browse", "dirAction"}
    /\ ignoreSource = Absent
    /\ ignoreSource' = Shrunk
    /\ UNCHANGED << pc, workspaceFolders, srcLines, probeEntry, probeResult,
                    options, rohitIgnorePatterns, navVars, selectedItems,
                    copyVars, destAsked, shown >>

RaceNext == Next \/ FileDeleted

RaceSpec == Init /\ [][RaceNext]_vars

(***************************************************************************)
(* IgnoreMatcher alone: parseRohitIgnore on ignore files written line by   *)
(* line, then shouldIgnore on single entries                               *)
(***************************************************************************)

\* most lines of an ignore file
MaxLines == 2

\* the lines an ignore file is written with
IgnoreLines ==
    { "", "  ", "# c", " #c", "a#c", "*.log", "temp/", " temp/\r", "temp",
      "a?c", "a.c" }

\* the ignore files of at most MaxLines lines, and the file of the
\* scenario "*.log\ntemp/\n# comment\n"
LineSeqs ==
    UNION { [1..n -> IgnoreLines] : n \in 0..MaxLines }
    \cup { << "*.log", "temp/", "# comment", "" >> }

\* the text of a file written with these lines, "\n" between them
RECURSIVE TextOf(_)
TextOf(lines) ==
    IF Len(lines) = 0 THEN ""
    ELSE IF Len(lines) = 1 THEN lines[1]
    ELSE lines[1] \o "\n" \o TextOf(Tail(lines))

\* the entries shouldIgnore is called on
ProbeEntries ==
    { [path |-> <<"w", "a.log">>, isDirectory |-> FALSE],
      [path |-> <<"w", "alog">>, isDirectory |-> FALSE],
      [path |-> <<"w", "notes.txt">>, isDirectory |-> FALSE],
      [path |-> <<"w", "temp">>, isDirectory |-> TRUE],
      [path |-> <<"w", "temp">>, isDirectory |-> FALSE],
      [path |-> <<"w", "src", "temp">>, isDirectory |-> TRUE],
      [path |-> <<"w", "src", "a.log">>, isDirectory |-> FALSE],
      [path |-> <<"w", "a?c">>, isDirectory |-> FALSE],
      [path |-> <<"w", "abc">>, isDirectory |-> FALSE],
      [path |-> <<"w", "a.c">>, isDirectory |-> FALSE],
      [path |-> <<"w", "ac">>, isDirectory |-> FALSE],
      [path |-> <<"w", "c">>, isDirectory |-> FALSE],
      [path |-> <<"w", "a#c">>, isDirectory |-> TRUE] }

MatcherInit ==
    /\ pc = "matcher start"
    /\ workspaceFolders = 1
    /\ srcLines \in LineSeqs
    /\ ignoreSource = TextOf(srcLines)
    /\ options = [preserveStructure |-> FALSE, includeHiddenFiles |-> FALSE,
                  createTimestampFolder |-> FALSE]
    /\ rohitIgnorePatterns = <<>>
    /\ selectedFiles = <<>>
    /\ everSelected = FALSE
    /\ currentPath = WorkspaceRoot
    /\ items = <<>>
    /\ selected = NoItem
    /\ lastChoice = "none"
    /\ selectedItems = <<>>
    /\ destinationFolder = <<>>
    /\ dstFiles = {}
    /\ dstDirs = {}
    /\ dstBefore = {}
    /\ i = 0
    /\ reports = 0
    /\ written = <<>>
    /\ events = <<>>
    /\ destAsked = FALSE
    /\ shown = <<>>
    /\ probeEntry = NoEntry
    /\ probeResult = "none"

\* parseRohitIgnore(workspaceRoot) on the file
MatcherParse ==
    /\ pc = "matcher start"
    /\ rohitIgnorePatterns' = parseRohitIgnore(ignoreSource)
    /\ pc' = "matcher parsed"
    /\ UNCHANGED << envVars, options, navVars, selectedItems, copyVars,
                    destAsked, shown >>

\* shouldIgnore(itemPath, workspaceRoot, isDirectory, rohitIgnorePatterns)
\* on one entry
MatcherProbe(entry) ==
    /\ pc \in {"matcher parsed", "matcher probed"}
    /\ probeEntry' = entry
    /\ probeResult' = shouldIgnore(entry.path, WorkspaceRoot, entry.isDirectory,
                                   rohitIgnorePatterns)
    /\ pc' = "matcher probed"
    /\ UNCHANGED << workspaceFolders, ignoreSource, srcLines, options,
                    rohitIgnorePatterns, navVars, selectedItems, copyVars,
                    destAsked, shown >>

MatcherNext ==
    \/ MatcherParse
    \/ \E entry \in ProbeEntries : MatcherProbe(entry)

MatcherSpec == MatcherInit /\ [][MatcherNext]_vars

(***************************************************************************)
(* Properties                                                              *)
(***************************************************************************)

\* the paths of a set of files
PathsOf(files) == { f.path : f \in files }

\* the path copyFileWithStructure computes for the k-th selected file before
\* it looks for collisions
TargetOf(k) ==
    FinalDestinationPath(selectedItems[k], destinationFolder, WorkspaceRoot, options)

\* the paths of the files in the destination just before the k-th copy
FilesBefore(k) == PathsOf(dstBefore) \cup { written[j] : j \in 1..(k - 1) }

\* C1: copyFileWithStructure never overwrites. Every file that was in the
\* destination when it was chosen is still there with its content, every
\* file written holds its source, and the path each copy wrote did not
\* exist just before that copy.
C1_NeverOverwrites ==
    /\ \A f \in dstBefore : f \in dstFiles
    /\ \A k \in 1..Len(written) :
          /\ written[k] \notin FilesBefore(k)
          /\ [path |-> written[k], content |-> selectedItems[k]] \in dstFiles

\* a file has been copied whose computed target path held a file beforehand
C1_Witness ==
    \E k \in 1..Len(written) : TargetOf(k) \in PathsOf(dstBefore)

\* C2: cancelling the top-level picker ends the command with an empty
\* result: nothing selected reaches the caller, the destination dialog is
\* not shown, no directory is created and no file is copied.
C2_CancelYieldsNothing ==
    lastChoice = "cancel" =>
        /\ pc = "done"
        /\ selectedItems = <<>>
        /\ ~destAsked
        /\ destinationFolder = <<>>
        /\ dstDirs = {} /\ dstFiles = {}
        /\ written = <<>>

\* the picker was cancelled below the root with files selected
C2_Witness ==
    /\ lastChoice = "cancel"
    /\ Len(selectedFiles) >= 2
    /\ currentPath # WorkspaceRoot

\* the command ended in the catch block
Failed == pc = "done" /\ Len(shown) > 0 /\ shown[Len(shown)] = "Backup failed"

\* C3: when the copy of the k-th file fails the batch stops there: the
\* files before it stay in the destination with their content, the k-th
\* file and those after it are not in the destination, the error is
\* shown and the success message is not; and no file is passed over
\* without having been copied.
C3_FailureAbortsBatch ==
    /\ i = Len(written)
    /\ Failed =>
          /\ \A k \in 1..i :
                [path |-> written[k], content |-> selectedItems[k]] \in dstFiles
          /\ \A k \in (i + 1)..Len(selectedItems) :
                \A f \in dstFiles : f.content # selectedItems[k]
          /\ reports = i
          /\ \A m \in 1..Len(shown) : shown[m] # "Successfully backed up"

\* the copy of a file in the middle of the list failed
C3_Witness ==
    /\ Failed
    /\ i >= 1
    /\ i + 1 < Len(selectedItems)

\* the members of a selection that lie under the directory d
MembersUnder(files, d) ==
    { files[k] : k \in { n \in 1..Len(files) : IsUnder(files[n], d) } }

\* the members of a selection that do not lie under the directory d
MembersOutside(files, d) ==
    { files[k] : k \in { n \in 1..Len(files) : ~IsUnder(files[n], d) } }

\* the recursive listing of d under the options and rules of the session
Eligible(d) ==
    getAllFilesInDirectory(d, WorkspaceRoot, options, rohitIgnorePatterns,
                           ignoreSource)

\* every eligible file of d is in the selection; none of them is
AllSelected(files, d) ==
    \A k \in 1..Len(Eligible(d)) : IsMember(Eligible(d)[k], files)

NoneSelected(files, d) ==
    \A k \in 1..Len(Eligible(d)) : ~IsMember(Eligible(d)[k], files)

\* this step is "Toggle Selection" on the directory of the sub-prompt
IsToggleStep ==
    pc = "dirAction" /\ lastChoice' \in {"toggle on", "toggle off"}

\* the selection after "Toggle Selection" is chosen once more, in the list
\* this step presents, on the directory this step toggled
ToggledAgain ==
    LET d == selected.filePath
        k == CHOOSE n \in 1..Len(items') : items'[n].filePath = d
    IN ToggleDirectory(selectedFiles', items'[k], options,
                       rohitIgnorePatterns, ignoreSource)

\* C4 as stated: whatever part of d's files is selected, toggling d twice
\* in succession restores the membership of the files under d.
C4_Original ==
    [][IsToggleStep =>
          MembersUnder(ToggledAgain, selected.filePath)
              = MembersUnder(selectedFiles, selected.filePath)]_vars

\* C4, amended: when none or all of d's eligible files are selected,
\* toggling d twice in succession restores the membership of the files
\* under d; when some but not all are selected the second toggle leaves
\* none of them selected.
C4_ToggleTwice ==
    [][IsToggleStep =>
          LET d == selected.filePath
          IN /\ (NoneSelected(selectedFiles, d) \/ AllSelected(selectedFiles, d))
                   => MembersUnder(ToggledAgain, d) = MembersUnder(selectedFiles, d)
             /\ ~(NoneSelected(selectedFiles, d) \/ AllSelected(selectedFiles, d))
                   => MembersUnder(ToggledAgain, d) = {}]_vars

\* a folder with several eligible files, all of them selected, has been
\* toggled off and is presented unselected
C4_Witness ==
    /\ lastChoice = "toggle off"
    /\ pc = "browse"
    /\ \E k \in 1..Len(items) :
          /\ items[k].isDirectory /\ ~items[k].isParent /\ ~items[k].isSelected
          /\ Len(Eligible(items[k].filePath)) >= 2
          /\ NoneSelected(selectedFiles, items[k].filePath)

\* C5: "Toggle Selection" on a folder d changes the membership of no file
\* outside d; when every eligible file under d is selected it leaves no
\* file under d selected, and otherwise the files under d it leaves
\* selected are those selected before and the eligible files of d.
C5_ToggleFrame ==
    [][IsToggleStep =>
          LET d == selected.filePath
          IN /\ MembersOutside(selectedFiles', d) = MembersOutside(selectedFiles, d)
             /\ AllSelected(selectedFiles, d) => MembersUnder(selectedFiles', d) = {}
             /\ ~AllSelected(selectedFiles, d) =>
                   MembersUnder(selectedFiles', d)
                       = MembersUnder(selectedFiles, d)
                         \cup { Eligible(d)[k] : k \in 1..Len(Eligible(d)) }]_vars

\* a fully selected folder has been toggled off while files outside it
\* were selected, and those are still selected
C5_Witness ==
    /\ lastChoice = "toggle off"
    /\ selectedFiles # <<>>

\* a selection that holds every file of the project
EveryProjectFile ==
    << <<"w", ".rohitignore">>, <<"w", "a.txt">>, <<"w", "out", "x.js">>,
       <<"w", "src", ".cfg", "k.txt">>, <<"w", "src", ".cfg", "m.txt">>,
       <<"w", "src", "b.log">>, <<"w", "src", "gen", "a.txt">> >>

\* C6: a directory whose recursive listing is empty after the exclusions
\* is never reported as selected, whatever the selection holds: neither
\* by isItemSelected on the selection of the session or on the selection
\* of every file of the project, nor in the list the picker shows.
C6_EmptyNeverSelected ==
    pc \in {"browse", "dirAction"} =>
        /\ \A d \in ProjectDirs :
              Len(Eligible(d)) = 0 =>
                  /\ ~isItemSelected(d, TRUE, selectedFiles, WorkspaceRoot, options,
                                     rohitIgnorePatterns, ignoreSource)
                  /\ ~isItemSelected(d, TRUE, EveryProjectFile, WorkspaceRoot,
                                     options, rohitIgnorePatterns, ignoreSource)
        /\ \A k \in 1..Len(items) :
              (items[k].isDirectory /\ ~items[k].isParent
               /\ Len(Eligible(items[k].filePath)) = 0) => ~items[k].isSelected

\* the picker shows a directory that holds entries, all of them excluded,
\* while files are selected
C6_Witness ==
    /\ pc = "browse"
    /\ selectedFiles # <<>>
    /\ \E k \in 1..Len(items) :
          /\ items[k].isDirectory /\ ~items[k].isParent
          /\ Len(readdirSync(items[k].filePath, ignoreSource)) > 0
          /\ Len(Eligible(items[k].filePath)) = 0

\* something exists at the path p just before the k-th copy
ExistedBefore(p, k) == p \in FilesBefore(k) \cup dstDirs

\* the path under the destination root that mirrors the place of the k-th
\* selected file in the project
MirrorOf(k) ==
    JoinRel(destinationFolder, Relative(WorkspaceRoot, selectedItems[k]))

\* C7 as stated: with preserveStructure every written file has, relative
\* to the effective destination root, the path of its source relative to
\* the workspace root.
C7_Original ==
    options.preserveStructure =>
        \A k \in 1..Len(written) :
            Relative(destinationFolder, written[k])
                = Relative(WorkspaceRoot, selectedItems[k])

\* C7, amended: with preserveStructure a file is written at the path of
\* its source relative to the workspace root whenever nothing exists at
\* that path under the effective destination root before the copy;
\* otherwise it is written in the same directory under another name.
C7_RoundTrip ==
    options.preserveStructure =>
        \A k \in 1..Len(written) :
            IF ExistedBefore(MirrorOf(k), k)
            THEN /\ DirName(written[k]) = DirName(MirrorOf(k))
                 /\ written[k] # MirrorOf(k)
            ELSE Relative(destinationFolder, written[k])
                     = Relative(WorkspaceRoot, selectedItems[k])

\* with preserveStructure a file two directories down has been copied to
\* its place, and another file beside an older file that had its place
C7_Witness ==
    /\ options.preserveStructure
    /\ \E k \in 1..Len(written) :
          /\ Len(Relative(WorkspaceRoot, selectedItems[k])) = 3
          /\ written[k] = MirrorOf(k)
    /\ \E k \in 1..Len(written) : ExistedBefore(MirrorOf(k), k)

\* C8: a file whose computed target is free is written there; a file
\* whose target name.ext exists is written to name(n).ext in the same
\* directory, n the smallest integer from 1 on whose name(n).ext is free,
\* the suffix always put on the original name. With preserveStructure
\* off, a.txt lands at a(1).txt beside an older a.txt, at a(2).txt when
\* a(1).txt exists as well, and at a(3).txt when a(2).txt does too.
C8_CollisionSuffix ==
    /\ \A k \in 1..Len(written) :
          IF ~ExistedBefore(TargetOf(k), k) THEN written[k] = TargetOf(k)
          ELSE \E n \in 1..(Cardinality(FilesBefore(k)) + 1) :
                  /\ written[k] = Candidate(TargetOf(k), n)
                  /\ DirName(written[k]) = DirName(TargetOf(k))
                  /\ ~ExistedBefore(written[k], k)
                  /\ \A m \in 1..(n - 1) : ExistedBefore(Candidate(TargetOf(k), m), k)
    /\ \A k \in 1..Len(written) :
          (/\ ~options.preserveStructure
           /\ BaseName(selectedItems[k]) = "a.txt"
           /\ Join(destinationFolder, "a.txt") \in FilesBefore(k)) =>
              IF Join(destinationFolder, "a(1).txt") \notin FilesBefore(k)
              THEN written[k] = Join(destinationFolder, "a(1).txt")
              ELSE IF Join(destinationFolder, "a(2).txt") \notin FilesBefore(k)
              THEN written[k] = Join(destinationFolder, "a(2).txt")
              ELSE written[k] = Join(destinationFolder, "a(3).txt")

\* with preserveStructure off two files named a.txt have been copied into
\* a folder that held a.txt: the copies are a(1).txt and a(2).txt
C8_Witness ==
    /\ ~options.preserveStructure
    /\ Len(written) >= 2
    /\ BaseName(selectedItems[1]) = "a.txt"
    /\ BaseName(selectedItems[2]) = "a.txt"
    /\ PathsOf(dstBefore) = { Join(destinationFolder, "a.txt") }
    /\ written[1] = Join(destinationFolder, "a(1).txt")
    /\ written[2] = Join(destinationFolder, "a(2).txt")

\* C9: the directory shown is the workspace root or lies under it, and
\* the parent item is offered exactly when the directory shown is not the
\* root and then leads to the directory above it.
C9_CurrentUnderRoot ==
    /\ IsUnder(currentPath, WorkspaceRoot)
    /\ pc = "browse" =>
          /\ (\E k \in 1..Len(items) : items[k].isParent) <=> currentPath # WorkspaceRoot
          /\ \A k \in 1..Len(items) :
                items[k].isParent => /\ items[k].filePath = DirName(currentPath)
                                     /\ IsUnder(items[k].filePath, WorkspaceRoot)

\* the parent item has led back to the root with files selected
C9_Witness ==
    /\ lastChoice = "parent"
    /\ currentPath = WorkspaceRoot
    /\ selectedFiles # <<>>

\* C10: dismissing the enter/toggle sub-prompt does not end the session:
\* the navigator shows the same directory again, with the same list, and
\* the selection is unchanged.
C10_SubPromptCancel ==
    [][(pc = "dirAction" /\ lastChoice' = "cancel action") =>
          /\ pc' = "browse"
          /\ currentPath' = currentPath
          /\ selectedFiles' = selectedFiles
          /\ items' = items
          /\ selectedItems' = selectedItems /\ shown' = shown]_vars

\* the sub-prompt has been dismissed below the root with files selected
\* and the picker is open again
C10_Witness ==
    /\ lastChoice = "cancel action"
    /\ pc = "browse"
    /\ selectedFiles # <<>>
    /\ currentPath # WorkspaceRoot

\* nothing has been created or written in any destination
DestinationUntouched ==
    /\ destinationFolder = <<>>
    /\ dstDirs = {} /\ dstFiles = {}
    /\ written = <<>>

\* C11 as stated: with no workspace folder open, with an options prompt
\* cancelled and with the destination dialog cancelled, the command ends,
\* a message has been shown and no destination has been changed.
C11_Original ==
    /\ (pc = "done" /\ workspaceFolders = 0) =>
          (Len(shown) >= 1 /\ DestinationUntouched)
    /\ lastChoice = "cancel options" =>
          (pc = "done" /\ Len(shown) >= 1 /\ DestinationUntouched)
    /\ lastChoice = "cancel destination" =>
          (pc = "done" /\ Len(shown) >= 1 /\ DestinationUntouched)

\* C11, amended: in each of the three cases the command ends and no
\* destination has been changed; with no workspace folder open and with
\* the destination dialog cancelled exactly one message is shown, the one
\* of that case, and with an options prompt cancelled none is.
C11_ConfigurationAbsent ==
    /\ (pc = "done" /\ workspaceFolders = 0) =>
          (shown = <<"No workspace folder is open.">> /\ DestinationUntouched)
    /\ lastChoice = "cancel options" =>
          (pc = "done" /\ shown = <<>> /\ DestinationUntouched)
    /\ lastChoice = "cancel destination" =>
          (/\ pc = "done"
           /\ shown = <<"No destination folder selected.">>
           /\ DestinationUntouched)

\* the destination dialog was cancelled with several files selected
C11_Witness ==
    /\ lastChoice = "cancel destination"
    /\ Len(selectedItems) >= 2

\* reading the directory d fails: it cannot be listed, or one of the
\* entries listed is gone when it is looked at
ReadFails(d) ==
    \/ ReaddirThrows(d)
    \/ \E n \in 1..Len(readdirSync(d, ignoreSource)) :
          StatThrows(Join(d, readdirSync(d, ignoreSource)[n]))

\* the entry at path q passes the exclusions of the session
Kept(q) ==
    /\ ~StatThrows(q)
    /\ EntryVerdict(BaseName(q), q, WorkspaceRoot, options, rohitIgnorePatterns)
           = "keep"

\* the entries a listing of d owes: none when reading d fails, else every
\* entry of d that passes the exclusions
OwedEntries(d) ==
    IF ReadFails(d) THEN {}
    ELSE { Join(d, readdirSync(d, ignoreSource)[n]) :
             n \in { m \in 1..Len(readdirSync(d, ignoreSource)) :
                       Kept(Join(d, readdirSync(d, ignoreSource)[m])) } }

\* the files a recursive listing of d owes: the files below d that are
\* owed by their directory, every directory from d down to them being owed
\* by its own
OwedFiles(d) ==
    { f \in ProjectFiles :
        /\ IsUnder(f, d) /\ Len(f) > Len(d)
        /\ \A n \in (Len(d) + 1)..Len(f) :
              SubSeq(f, 1, n) \in OwedEntries(SubSeq(f, 1, n - 1)) }

\* C12 as stated: a directory whose reading fails contributes no entries
\* and everything beside it is still scanned: the list the picker shows
\* holds exactly the entries owed by the directory shown, and the
\* recursive listing of every directory in that list holds exactly the
\* files owed below it.
C12_Original ==
    pc = "browse" =>
        /\ { items[k].filePath :
               k \in { n \in 1..Len(items) :
                         ~items[n].isParent /\ items[n].filePath # DonePath } }
              = OwedEntries(currentPath)
        /\ \A k \in 1..Len(items) :
              (items[k].isDirectory /\ ~items[k].isParent) =>
                  { Eligible(items[k].filePath)[n] :
                      n \in 1..Len(Eligible(items[k].filePath)) }
                      = OwedFiles(items[k].filePath)

\* how many times the message m has been shown
TimesShown(m) == Cardinality({ n \in 1..Len(shown) : shown[n] = m })

\* a destination has been chosen and the command is past the copy loop
CopyPhaseOver == pc \in {"askOpen", "done"} /\ dstDirs # {}

\* C13: once a destination is chosen the command ends in one of two ways:
\* the success message, shown once and only when every selected file has
\* been copied, or the 'Backup failed' message, shown once, with no success
\* message; a run that did not copy every file always ends with 'Backup
\* failed'.
C13_CopyOutcome ==
    /\ TimesShown("Successfully backed up") + TimesShown("Backup failed") <= 1
    /\ TimesShown("Successfully backed up") = 1 =>
          /\ i = Len(selectedItems)
          /\ Len(written) = Len(selectedItems)
          /\ \A k \in 1..Len(selectedItems) :
                [path |-> written[k], content |-> selectedItems[k]] \in dstFiles
    /\ TimesShown("Backup failed") = 1 => pc = "done"
    /\ CopyPhaseOver =>
          TimesShown("Successfully backed up") + TimesShown("Backup failed") = 1
    /\ (CopyPhaseOver /\ Len(written) < Len(selectedItems)) =>
          TimesShown("Backup failed") = 1

\* the success message has been shown after three files were copied
C13_Witness ==
    /\ pc = "askOpen"
    /\ TimesShown("Successfully backed up") = 1
    /\ Len(written) >= 3

\* the line holds nothing but white space
Blank(l) == \A n \in 1..Len(l) : Ch(l, n) \in {" ", "\t", "\r"}

\* the positions of the first and of the last character of a line that is
\* not white space
FirstInk(l) ==
    CHOOSE n \in 1..Len(l) :
        ~Blank(Ch(l, n)) /\ \A m \in 1..(n - 1) : Blank(Ch(l, m))

LastInk(l) ==
    CHOOSE n \in 1..Len(l) :
        ~Blank(Ch(l, n)) /\ \A m \in (n + 1)..Len(l) : Blank(Ch(l, m))

\* the line without the white space around it
Core(l) == SubSeq(l, FirstInk(l), LastInk(l))

\* the line is neither blank nor a comment
IsRuleLine(l) == ~Blank(l) /\ Ch(l, FirstInk(l)) # "#"

\* C14: parseRohitIgnore yields no rule for a line that is empty, holds
\* only white space, or has '#' as its first character after white space;
\* every other line yields exactly one rule, the rules in the order of
\* their lines; a line that ends in '/' yields a directory-only rule whose
\* pattern is the line without that '/', any other line a rule for files
\* and directories whose pattern is the line.
C14_ParseRules ==
    pc # "matcher start" =>
        LET ruleLines == SelectSeq(srcLines, IsRuleLine)
        IN /\ Len(rohitIgnorePatterns) = Len(ruleLines)
           /\ \A k \in 1..Len(ruleLines) :
                 IF EndsWith(Core(ruleLines[k]), "/")
                 THEN /\ rohitIgnorePatterns[k].isDirectory
                      /\ rohitIgnorePatterns[k].pattern \o "/" = Core(ruleLines[k])
                 ELSE /\ ~rohitIgnorePatterns[k].isDirectory
                      /\ rohitIgnorePatterns[k].pattern = Core(ruleLines[k])

\* a file of a wildcard line, a directory line, a comment and a final
\* empty line has been parsed into two rules
C14_Witness ==
    /\ pc = "matcher parsed"
    /\ srcLines = << "*.log", "temp/", "# comment", "" >>
    /\ Len(rohitIgnorePatterns) = 2

\* the rule applies to files as well as to directories
ForFilesToo(rule) == ~rule.isDirectory

\* a file and a directory entry at the path p
AsFile(p) == [path |-> p, isDirectory |-> FALSE]
AsDir(p) == [path |-> p, isDirectory |-> TRUE]

RECURSIVE GlobMatch(_, _, _, _)
GlobMatch(p, n, s, j) ==
    IF n > Len(p) THEN j > Len(s)
    ELSE IF Ch(p, n) = "*"
         THEN GlobMatch(p, n + 1, s, j)
              \/ (j <= Len(s) /\ GlobMatch(p, n, s, j + 1))
    ELSE j <= Len(s) /\ Ch(s, j) = Ch(p, n) /\ GlobMatch(p, n + 1, s, j + 1)

\* the rule matches the entry when '*' is the only special character
RuleMatches(rule, entry) ==
    LET itemName == BaseName(entry.path)
        relativePath == PathStr(Relative(WorkspaceRoot, entry.path))
    IN /\ rule.isDirectory => entry.isDirectory
       /\ IF rule.isGlob
          THEN GlobMatch(rule.pattern, 1, itemName, 1)
               \/ GlobMatch(rule.pattern, 1, relativePath, 1)
          ELSE itemName = rule.pattern \/ relativePath = rule.pattern

\* C16 as stated: shouldIgnore ignores an entry exactly when a rule
\* matches it, a wildcard rule matching the whole base name or the whole
\* root-relative path with '*' for any run of characters and every other
\* character, '.' and '?' included, for itself; so "*.log" does not match
\* alog.
C16_Original ==
    pc = "matcher probed" =>
        /\ probeResult = "yes" <=>
              \E k \in 1..Len(rohitIgnorePatterns) :
                  RuleMatches(rohitIgnorePatterns[k], probeEntry)
        /\ (srcLines = << "*.log" >> /\ probeEntry = AsFile(<<"w", "alog">>)) =>
              probeResult = "no"

\* a component of p below the workspace root starts with '.'
HiddenBelowRoot(p) ==
    \E n \in (Len(WorkspaceRoot) + 1)..Len(p) : StartsWith(p[n], ".")

\* C17: while includeHiddenFiles is false no entry whose name starts with
\* '.' is in the list the picker shows or is the directory of the
\* sub-prompt, the directory shown is not hidden nor below a hidden one,
\* and no file that is hidden or lies below a hidden directory is in the
\* selection, in what the navigator returns or among the files copied.
C17_HiddenExcluded ==
    ~options.includeHiddenFiles =>
        /\ \A k \in 1..Len(items) :
              items[k].filePath # DonePath => ~HiddenBelowRoot(items[k].filePath)
        /\ ~HiddenBelowRoot(selected.filePath)
        /\ ~HiddenBelowRoot(currentPath)
        /\ \A k \in 1..Len(selectedFiles) : ~HiddenBelowRoot(selectedFiles[k])
        /\ \A k \in 1..Len(selectedItems) : ~HiddenBelowRoot(selectedItems[k])
        /\ \A f \in dstFiles : f \in dstBefore \/ ~HiddenBelowRoot(f.content)

\* with hidden entries excluded, a folder that holds a hidden file has
\* been entered and has been selected as a whole
C17_Witness ==
    /\ ~options.includeHiddenFiles
    /\ pc = "browse"
    /\ \E k \in 1..Len(items) :
          /\ items[k].isDirectory /\ ~items[k].isParent /\ items[k].isSelected
          /\ \E n \in 1..Len(readdirSync(items[k].filePath, ignoreSource)) :
                StartsWith(readdirSync(items[k].filePath, ignoreSource)[n], ".")
    /\ lastChoice = "toggle on"

\* no path occurs twice in the sequence
NoDuplicates(files) ==
    \A a \in 1..Len(files), b \in 1..Len(files) : files[a] = files[b] => a = b

\* C18: the selection never holds the same file path twice, whatever
\* files and folders have been toggled, folders with part of their files
\* selected included; nor does the list the navigator returns.
C18_UniqueKeys ==
    /\ NoDuplicates(selectedFiles)
    /\ NoDuplicates(selectedItems)

\* a folder has been toggled on while one of its files was selected
\* already: that file is first in the selection, a file outside the
\* folder second, the other file of the folder third
C18_Witness ==
    /\ lastChoice = "toggle on"
    /\ Len(selectedFiles) = 3
    /\ selectedFiles[1] = <<"w", "src", "b.log">>
    /\ selectedFiles[2] = <<"w", "a.txt">>
    /\ selectedFiles[3] = <<"w", "src", "gen", "a.txt">>

\* the navigator has returned through "Done"
ReturnedByDone ==
    \/ pc \in {"askDest", "copy", "askOpen"}
    \/ pc = "done" /\ lastChoice \in {"done", "cancel destination"}

\* C19: after "Done" the list the navigator returned is the selection as
\* it stood, in insertion order, and stays so through the copy phase; the
\* k-th copy made is the copy of the k-th file of that list, so that after
\* the success message every selected file has been copied exactly once
\* and nothing else has.
C19_DoneThenCopyInOrder ==
    /\ ReturnedByDone => selectedItems = selectedFiles
    /\ pc \in {"copy", "askOpen"} =>
          /\ i = Len(written) /\ i <= Len(selectedItems)
          /\ \A k \in 1..Len(written) :
                [path |-> written[k], content |-> selectedItems[k]] \in dstFiles
          /\ \A f \in dstFiles :
                f \in dstBefore \/ \E k \in 1..Len(written) :
                                      f = [path |-> written[k], content |-> selectedItems[k]]
          /\ NoDuplicates(written)
    /\ pc = "askOpen" =>
          /\ Len(written) = Len(selectedFiles)
          /\ \A k \in 1..Len(selectedFiles) :
                Cardinality({ f \in dstFiles : f.content = selectedFiles[k] }) = 1

\* files selected in an order that is not the order of the picker have
\* all been copied
C19_Witness ==
    /\ pc = "askOpen"
    /\ Len(selectedFiles) >= 2
    /\ selectedFiles[1] = <<"w", "src", "gen", "a.txt">>
    /\ selectedFiles[2] = <<"w", "a.txt">>

\* C20 as stated: when "Toggle Selection" is applied to a folder, the
\* aggregate state that chose between removing and adding is the aggregate
\* state of the listing whose files are removed or added, also when the
\* folder has changed since the list was shown.
C20_Original ==
    [][IsToggleStep =>
          selected.isSelected =
              isItemSelected(selected.filePath, TRUE, selectedFiles, WorkspaceRoot,
                             options, rohitIgnorePatterns, ignoreSource)]_vars

\* the checkbox the claim prescribes for an entry, on the selection as it is
Checkbox(item) ==
    IF ~item.isDirectory THEN IsMember(item.filePath, selectedFiles)
    ELSE /\ Len(Eligible(item.filePath)) > 0
         /\ AllSelected(selectedFiles, item.filePath)

\* the entries of the presented list that are files or directories of the
\* directory shown
RealEntries ==
    { k \in 1..Len(items) : items[k].filePath # DonePath /\ ~items[k].isParent }

Members(files) == { files[k] : k \in 1..Len(files) }

\* this step is the choice of a file entry
IsFileStep == pc = "browse" /\ lastChoice' = "file"

\* C22: the choice of a file entry toggles that file and no other, stays in
\* the directory shown, and the same choice made again in the list shown
\* next gives back the membership there was.
C22_FileToggle ==
    [][IsFileStep =>
          \E k \in RealEntries :
             LET p == items[k].filePath
             IN /\ ~items[k].isDirectory
                /\ Members(selectedFiles') =
                      IF p \in Members(selectedFiles)
                      THEN Members(selectedFiles) \ {p}
                      ELSE Members(selectedFiles) \cup {p}
                /\ currentPath' = currentPath
                /\ \E n \in 1..Len(items') : items'[n].filePath = p
                /\ Members(ToggleFile(selectedFiles', p)) = Members(selectedFiles)]_vars

\* file entries have been chosen and the selection is empty: the last
\* choice removed a file
C22_Witness ==
    /\ pc = "browse"
    /\ lastChoice = "file"
    /\ selectedFiles = <<>>

\* C23: the parent entry leads to the parent of the directory shown and
\* "Enter Folder" to the directory chosen, in both cases with the selection
\* as it was; "Toggle Selection" stays in the directory shown.
C23_NavigationFrame ==
    [][/\ (pc = "browse" /\ lastChoice' = "parent") =>
             /\ currentPath' = DirName(currentPath)
             /\ selectedFiles' = selectedFiles
       /\ (pc = "dirAction" /\ lastChoice' = "enter") =>
             /\ currentPath' = selected.filePath
             /\ DirName(currentPath') = currentPath
             /\ selectedFiles' = selectedFiles
       /\ IsToggleStep => currentPath' = currentPath]_vars

\* the parent entry was chosen two levels below the root, with files
\* selected
C23_Witness ==
    /\ pc = "browse"
    /\ lastChoice = "parent"
    /\ currentPath = <<"w", "src">>
    /\ Len(selectedFiles) > 0

\* C24: a presented list ends with the "Done" item and no other item is
\* "Done"; its first item is the parent item exactly when the directory
\* shown is not the root, and no other item is a parent item; among the
\* other items no file comes before a directory; the selection holds
\* regular files only, so neither pseudo-entry is in it.
C24_ListShape ==
    /\ pc \in {"browse", "dirAction"} =>
          /\ Len(items) >= 1
          /\ \A k \in 1..Len(items) : items[k].filePath = DonePath <=> k = Len(items)
          /\ \A k \in 1..(Len(items) - 1) :
                items[k].isParent <=> (k = 1 /\ currentPath # WorkspaceRoot)
          /\ \A a \in RealEntries, b \in RealEntries :
                (a < b /\ items[b].isDirectory) => items[a].isDirectory
    /\ \A k \in 1..Len(selectedFiles) :
          /\ selectedFiles[k] # DonePath
          /\ selectedFiles[k] \notin ProjectDirs
          /\ selectedFiles[k] \in ProjectFiles

\* below the root, a list with directories and files is shown while files
\* are selected
C24_Witness ==
    /\ pc = "browse"
    /\ currentPath # WorkspaceRoot
    /\ Len(selectedFiles) > 0
    /\ \E a \in RealEntries, b \in RealEntries :
          items[a].isDirectory /\ ~items[b].isDirectory

\* C25: copies and progress reports alternate. The events of the loop are
\* copy 1, report 1, copy 2, report 2, ...: the n-th report carries the
\* count n of the number of selected files and comes right after the n-th
\* copy and before any later copy; a failed copy is the last event, so it
\* has no report; there are as many reports as files written.
C25_CopyReportAlternate ==
    /\ \A m \in 1..Len(events) :
          /\ events[m].of = Len(selectedItems)
          /\ events[m].op = "report" =>
                /\ m % 2 = 0
                /\ events[m].completed = m \div 2
                /\ events[m - 1].op = "copied"
                /\ events[m - 1].completed = events[m].completed
          /\ events[m].op = "copied" =>
                /\ m % 2 = 1
                /\ events[m].completed = (m + 1) \div 2
                /\ m < Len(events)
                /\ events[m + 1].op = "report"
          /\ events[m].op = "copy failed" =>
                /\ m = Len(events)
                /\ m % 2 = 1
    /\ Cardinality({ m \in 1..Len(events) : events[m].op = "report" }) = Len(written)
    /\ reports = Len(written)

\* two files were copied and reported and the copy of the third failed
C25_Witness ==
    /\ Len(events) = 5
    /\ events[4].op = "report"
    /\ events[5].op = "copy failed"

\* the directories the chosen destination held beforehand, itself included
DirsBefore == {DestRoot} \cup UNION { Ancestors(f.path) : f \in dstBefore }

\* the effective destination root as the claim prescribes it, once the
\* copy loop can run
RootAsPrescribed ==
    /\ IF options.createTimestampFolder
       THEN /\ DirName(destinationFolder) = DestRoot
            /\ StartsWith(BaseName(destinationFolder), "backup-")
            /\ BaseName(destinationFolder) = "backup-2024-01-15T10-30-45-123Z"
            /\ destinationFolder \notin DirsBefore
            /\ destinationFolder \in dstDirs
       ELSE destinationFolder = DestRoot
    /\ events = <<>> =>
          dstDirs = DirsBefore \cup (IF options.createTimestampFolder
                                     THEN {destinationFolder} ELSE {})
    /\ \A k \in 1..Len(written) :
          IsUnder(written[k], destinationFolder) /\ written[k] # destinationFolder

\* C26: there is no effective destination root and no copy before the
\* destination is chosen; when the copy loop can run the root is, with
\* createTimestampFolder, a directory backup-<timestamp> created under the
\* chosen folder that was not there before, and otherwise the chosen
\* folder itself with no directory created; every file is written beneath
\* the root; and once set the root never changes.
C26_DestinationRootFixed ==
    /\ [](/\ pc \notin {"copy", "askOpen", "done"} =>
                destinationFolder = <<>> /\ events = <<>>
          /\ pc \in {"copy", "askOpen"} => RootAsPrescribed
          /\ (pc = "done" /\ events # <<>>) => RootAsPrescribed)
    /\ [][destinationFolder # <<>> => destinationFolder' = destinationFolder]_vars

\* files of several directories have been copied, with their directories,
\* beneath a timestamped folder
C26_Witness ==
    /\ pc = "askOpen"
    /\ options.createTimestampFolder
    /\ options.preserveStructure
    /\ Len(written) >= 2
    /\ \E k \in 1..Len(written) : Len(written[k]) > Len(destinationFolder) + 1

\* C27: when "Done" is chosen with nothing selected, whether or not files
\* were selected earlier in the session, the command ends there with the
\* message 'No files selected for backup.' as the last thing shown, the
\* destination dialog is not opened, and no destination is created or
\* written.
C27_EmptySelection ==
    (lastChoice = "done" /\ selectedFiles = <<>>) =>
        /\ pc = "done"
        /\ Len(shown) > 0
        /\ shown[Len(shown)] = "No files selected for backup."
        /\ ~destAsked
        /\ DestinationUntouched
        /\ events = <<>>

\* "Done" was chosen with nothing selected after files had been selected
\* and deselected again
C27_Witness ==
    /\ lastChoice = "done"
    /\ selectedFiles = <<>>
    /\ everSelected

\* the entry at path q passes the exclusion policy: it is not hidden while
\* hidden entries are excluded, not on the built-in list of its kind, and
\* no ignore rule matches it
PassesPolicy(q) ==
    /\ options.includeHiddenFiles \/ ~StartsWith(BaseName(q), ".")
    /\ q \in ProjectDirs => BaseName(q) \notin ignoredDirs
    /\ q \notin ProjectDirs => BaseName(q) \notin ignoredFiles
    /\ shouldIgnore(q, WorkspaceRoot, q \in ProjectDirs, rohitIgnorePatterns) = "no"

\* C28: on a project that does not change, every path of the selection is
\* a regular file of the project strictly below the workspace root, and it
\* and every directory between the root and it pass the exclusion policy.
C28_SelectionEligible ==
    \A k \in 1..Len(selectedFiles) :
       LET p == selectedFiles[k]
       IN /\ p \in ProjectFiles
          /\ p \notin ProjectDirs
          /\ p # DonePath
          /\ IsUnder(p, WorkspaceRoot) /\ Len(p) > Len(WorkspaceRoot)
          /\ \A n \in (Len(WorkspaceRoot) + 1)..Len(p) :
                /\ PassesPolicy(SubSeq(p, 1, n))
                /\ n < Len(p) => SubSeq(p, 1, n) \in ProjectDirs

\* src has been toggled on at the root under ignore rules and with hidden
\* files included: of its files only the one in the hidden directory is
\* selected, the others are excluded
C28_Witness ==
    /\ pc = "browse"
    /\ lastChoice = "toggle on"
    /\ currentPath = WorkspaceRoot
    /\ Len(rohitIgnorePatterns) > 0
    /\ selectedFiles = << <<"w", "src", ".cfg", "k.txt">> >>

\* C29: when the copy loop has ended with the success message, the
\* destination holds every file it held before, unchanged, and exactly one
\* new file for each selected file, each at a path of its own, also when
\* directories are not preserved and selected files share a base name.
C29_ExactlyNNewFiles ==
    pc = "askOpen" =>
        /\ dstBefore \subseteq dstFiles
        /\ Cardinality(dstFiles \ dstBefore) = Len(selectedItems)
        /\ Cardinality(PathsOf(dstFiles)) = Cardinality(dstFiles)
        /\ Cardinality(PathsOf(dstFiles \ dstBefore)) = Len(selectedItems)
        /\ PathsOf(dstFiles \ dstBefore) \cap PathsOf(dstBefore) = {}
        /\ \A k \in 1..Len(selectedItems) :
              \E f \in dstFiles \ dstBefore : f.content = selectedItems[k]

\* without preserved directories, two selected files of one base name have
\* been copied into a destination that held a file of that name
C29_Witness ==
    /\ pc = "askOpen"
    /\ ~options.preserveStructure
    /\ \E a \in 1..Len(selectedItems), b \in 1..Len(selectedItems) :
          a # b /\ BaseName(selectedItems[a]) = BaseName(selectedItems[b])
    /\ \E f \in dstBefore : BaseName(f.path) = "a.txt"

\* what existsSync finds directly in the directory dir: files and
\* directories
EntriesIn(dir, files, dirs) ==
    { q \in PathsOf(files) \cup dirs : Len(q) > 0 /\ DirName(q) = dir }

\* this step is an iteration of the copy loop
IsCopyIteration == pc = "copy" /\ Len(events') > Len(events)

\* the path the copy of this iteration asks for
IterationTarget ==
    FinalDestinationPath(selectedItems[i + 1], destinationFolder, WorkspaceRoot,
                         options)

\* C30 as stated: when the target directory holds m regular files before a
\* copy, the copy makes at most m + 1 existence tests; and the copy phase,
\* once begun, always comes to its end.
C30_Original ==
    /\ [][IsCopyIteration =>
             LET m == Cardinality({ q \in PathsOf(dstFiles) :
                                      DirName(q) = DirName(IterationTarget) })
             IN events'[Len(events) + 1].probes <= m + 1]_vars
    /\ (pc = "copy" ~> pc \in {"askOpen", "done"})

\* C30, amended: the loop that looks for a free name ends. When the target
\* directory holds m entries (files and directories, all that existsSync
\* sees) before a copy, the copy makes at most m + 1 existence tests; and
\* the copy phase, once begun, always comes to its end, with the success
\* message or with a failure.
C30_ProbesBoundedAndEnds ==
    /\ [][IsCopyIteration =>
             LET m == Cardinality(EntriesIn(DirName(IterationTarget), dstFiles,
                                            dstDirs))
             IN events'[Len(events) + 1].probes <= m + 1]_vars
    /\ (pc = "copy" ~> pc \in {"askOpen", "done"})

\* the loop came to its end and one of its copies needed four existence
\* tests, in a directory that held three entries
C30_Witness ==
    /\ pc = "askOpen"
    /\ \E m \in 1..Len(events) : events[m].op = "copied" /\ events[m].probes >= 4

====
